---- MODULE Spec2Model ----
(***************************************************************************)
(* TinyG / g2core controller driver (cncjs): the flow-control core of      *)
(* src/server/controllers/TinyG/TinyGController.js.                         *)
(*                                                                         *)
(* The controller is a single-threaded event loop: every action below is   *)
(* one complete event handler (a frame decoded by the Runner, a client     *)
(* command, a query-timer tick, a transport event), including every        *)
(* nested call it makes (workflow -> sender -> dataFilter -> workflow ...). *)
(* Handlers are written as operators on a record `c` holding the whole     *)
(* controller state, so that the nested calls compose as in the source.    *)
(*                                                                         *)
(* Spec and SpecLive follow the streaming of a program, SpecBoot the open   *)
(* handshake and initController(), SpecRun the error footers and the stop  *)
(* command during a run, SpecOverride the override commands.               *)
(*                                                                         *)
(* Sender, Feeder, Workflow and TinyGRunner are libraries of the           *)
(* repository whose source is not part of src/; they are modelled from     *)
(* sections 4.2, 4.5, 4.6 and 4.7 of the specification.                     *)
(***************************************************************************)
EXTENDS Integers, Sequences, FiniteSets, TLC

VARIABLES
    isOpen,            \* connection.isOpen
    destroyed,         \* destroy() has run (transport close is terminal)
    ready,             \* this.ready
    openPc,            \* position of the async open callback: none | delay | done
    workflow,          \* this.workflow.state
    blocked,           \* this.blocked
    senderStatus,      \* this.senderStatus
    senderFinishTime,  \* this.actionTime.senderFinishTime
    now,               \* wall clock, ms (new Date().getTime())
    stateQr,           \* this.state.qr
    sender,            \* this.sender.state
    feeder,            \* this.feeder.state
    runner,            \* this.runner.state (machine stat and work position)
    mirror,            \* this.state (mirrored work position)
    written,           \* what the last event wrote to the transport, in order
    gate,              \* history: last queue-report watermark crossing
    hist,              \* history: the client commands just issued in a row
    initPc,            \* position of the async initController(): 0 not started,
                       \* k waiting in its k-th delay, InitDone after the last
    sr,                \* this.sr, the status-report field mask
    settings,          \* this.runner.settings: mfo, sso in hundredths
    registered,        \* controllers[ident] holds this controller
    bufferLimit,       \* TINYG_SERIAL_BUFFER_LIMIT
    emitted,           \* what the last event broadcast or triggered, in order
    wire,              \* history: everything written to the transport so far
    faulted,           \* history: a transport close or error event has arrived
    sentAtR            \* history: sender.sent as the last r frame handled while
                       \* the workflow was running left it, .ever over the whole
                       \* life and .run since the last workflow start

vars == <<isOpen, destroyed, ready, openPc, workflow, blocked, senderStatus,
          senderFinishTime, now, stateQr, sender, feeder, runner, mirror,
          written, gate, hist, initPc, sr, settings, registered, bufferLimit,
          emitted, wire, faulted, sentAtR>>

----------------------------------------------------------------------------
(* Program constants *)

LOW_WATER == 8
HIGH_WATER == 20
plannerBufferPoolSize == 32
toleranceTime == 500
QueryInterval == 250

SENDER_STATUS_NONE == "none"
SENDER_STATUS_NEXT == "next"
SENDER_STATUS_ACK == "ack"
WORKFLOW_STATE_IDLE == "idle"
WORKFLOW_STATE_PAUSED == "paused"
WORKFLOW_STATE_RUNNING == "running"

\* A line is a sequence of tokens (g-code words, a %-command, ";" and comment
\* text); blanks between tokens are implicit.
WAIT == <<"%wait">>
Dwell == <<"G4", "P0.5">>
DwellLine == <<"%wait", ";", "Wait for the planner to empty">>
NoReason == "null"

\* the keys of this.sr in declaration order, lines 104-136
SrFields == << "stat", "line", "vel", "feed", "unit", "coor", "momo", "plan",
              "path", "dist", "admo", "frmo", "tool", "posx", "posy", "posz",
              "posa", "posb", "posc", "mpox", "mpoy", "mpoz", "mpoa", "mpob",
              "mpoc", "spe", "spd", "spc", "sps", "com", "cof" >>
SrKeys == { SrFields[i] : i \in 1..Len(SrFields) }
\* the capability probes, lines 739-749
Probes == << "spe", "spd", "spc", "sps", "com", "cof" >>
ProbeKeys == { Probes[i] : i \in 1..Len(Probes) }
TINYG_SERIAL_BUFFER_LIMIT == 254

(* Bounds of the model *)
MaxProgLen == 2     \* lines of a loaded program, the appended %wait line excluded
MaxOverrun == 1     \* frames are cut off once received exceeds total by this much
ShortLimit == 205   \* a serial buffer limit that the longest field selections reach
MaxQueue == 2       \* override commands are issued while the Feeder holds fewer lines

\* Lines a client can put into a program or feed as g-code.
ProgramLines == { <<"G1">>, <<"M0">>, <<"%wait">>, <<"%x=1">> }
QrValues == { LOW_WATER, LOW_WATER + 4, HIGH_WATER, plannerBufferPoolSize }

SeqsUpTo(S, n) == UNION { [1..k -> S] : k \in 1..n }
Contents == SeqsUpTo(ProgramLines, MaxProgLen)
\* the empty string is one line without a token
EmptyContent == << << >> >>

Min(a, b) == IF a <= b THEN a ELSE b

----------------------------------------------------------------------------
(* The controller state as one record *)

Ctl == [ isOpen |-> isOpen, destroyed |-> destroyed, ready |-> ready,
         openPc |-> openPc, workflow |-> workflow, blocked |-> blocked,
         senderStatus |-> senderStatus, senderFinishTime |-> senderFinishTime,
         now |-> now, stateQr |-> stateQr, sender |-> sender, feeder |-> feeder,
         runner |-> runner, mirror |-> mirror, written |-> <<>>,
         initPc |-> initPc, sr |-> sr, settings |-> settings,
         registered |-> registered, bufferLimit |-> bufferLimit,
         emitted |-> <<>> ]

\* this.emit(...), engine.io.emit(...), event.trigger(...) and the other
\* outward effects of a handler, recorded in the order they happen
Emit(c, e) == [c EXCEPT !.emitted = Append(@, e)]

\* connection.write(data): append to the transport
ConnectionWrite(c, src, n, data) ==
    [c EXCEPT !.written = Append(@, [src |-> src, n |-> n, data |-> data])]

\* write(data) / writeln(data), lines 1365-1382
Write(c, data) ==
    IF ~c.isOpen THEN c
    ELSE ConnectionWrite(Emit(c, "connection:write"), "client", 0, data)

----------------------------------------------------------------------------
(* Expression stage helpers *)

RECURSIVE FirstSemicolon(_, _)
FirstSemicolon(line, i) ==
    IF i > Len(line) THEN i
    ELSE IF line[i] = ";" THEN i
    ELSE FirstSemicolon(line, i + 1)

\* line.replace(/\s*;.*/g, '').trim()
StripComment(line) == SubSeq(line, 1, FirstSemicolon(line, 1) - 1)

IsPercent(line) == Len(line) > 0 /\ line[1] \in { "%wait", "%x=1" }

Words(line) == { line[i] : i \in 1..Len(line) }

RECURSIVE FirstOf(_, _, _)
\* _.intersection(words, S)[0]
FirstOf(line, S, i) ==
    IF i > Len(line) THEN NoReason
    ELSE IF line[i] \in S THEN line[i]
    ELSE FirstOf(line, S, i + 1)

----------------------------------------------------------------------------
(* Sender (library): hold / unhold / rewind / ack / next *)

SenderHold(c, reason) ==
    IF c.sender.hold THEN c
    ELSE [c EXCEPT !.sender.hold = TRUE, !.sender.holdReason = reason]

SenderUnhold(c) ==
    IF ~c.sender.hold THEN c
    ELSE [c EXCEPT !.sender.hold = FALSE, !.sender.holdReason = NoReason]

SenderRewind(c) ==
    [c EXCEPT !.sender.sent = 0, !.sender.received = 0,
              !.sender.hold = FALSE, !.sender.holdReason = NoReason]

----------------------------------------------------------------------------
(* Workflow (library) and the controller's workflow handlers *)

\* a start handler that forgets sender.rewind()
OnWorkflowStartNoRewind(c) ==
    [Emit(c, "workflow:state") EXCEPT !.blocked = FALSE,
                                      !.senderStatus = SENDER_STATUS_NONE]

\* workflow.on('start'), lines 396-401
OnWorkflowStart(c) ==
    SenderRewind([Emit(c, "workflow:state") EXCEPT
                     !.blocked = FALSE, !.senderStatus = SENDER_STATUS_NONE])

\* a stop handler that leaves this.blocked alone
OnWorkflowStopKeepsBlocked(c) ==
    SenderRewind([Emit(c, "workflow:state") EXCEPT
                     !.senderStatus = SENDER_STATUS_NONE])

\* workflow.on('stop'), lines 402-407
OnWorkflowStop(c) ==
    SenderRewind([Emit(c, "workflow:state") EXCEPT
                     !.blocked = FALSE, !.senderStatus = SENDER_STATUS_NONE])

\* a pause handler that forgets sender.hold()
OnWorkflowPauseNoHold(c, reason) == Emit(c, "workflow:state")

\* workflow.on('pause'), lines 408-417
OnWorkflowPause(c, reason) == SenderHold(Emit(c, "workflow:state"), reason)

WorkflowStart(c) ==
    IF c.workflow # WORKFLOW_STATE_RUNNING
    THEN OnWorkflowStart([c EXCEPT !.workflow = WORKFLOW_STATE_RUNNING])
    ELSE c

WorkflowStop(c) ==
    IF c.workflow # WORKFLOW_STATE_IDLE
    THEN OnWorkflowStop([c EXCEPT !.workflow = WORKFLOW_STATE_IDLE])
    ELSE c

WorkflowPause(c, reason) ==
    IF c.workflow = WORKFLOW_STATE_RUNNING
    THEN OnWorkflowPause([c EXCEPT !.workflow = WORKFLOW_STATE_PAUSED], reason)
    ELSE c

----------------------------------------------------------------------------
(* Sender: dataFilter, data handler, start/end handlers, next, ack *)

NWords == { "N7" }

\* a filter that translates %wait without holding the Sender
SenderDataFilterNoHold(c, raw) ==
    LET line == StripComment(raw) IN
    IF IsPercent(line)
    THEN [c |-> c, line |-> IF line = WAIT THEN Dwell ELSE <<>>]
    ELSE LET programMode == FirstOf(line, {"M0", "M1"}, 1)
             c1 == IF programMode # NoReason THEN WorkflowPause(c, programMode) ELSE c
             c2 == IF "M6" \in Words(line) THEN WorkflowPause(c1, "M6") ELSE c1
         IN [c |-> c2, line |-> line]

\* sender dataFilter, lines 311-357: returns the controller state after the
\* filter's side effects and the line to transmit
SenderDataFilter(c, raw) ==
    LET line == StripComment(raw) IN
    IF IsPercent(line)
    THEN IF line = WAIT
         THEN [c |-> SenderHold(c, "%wait"), line |-> Dwell]
         ELSE [c |-> c, line |-> <<>>]
    ELSE LET programMode == FirstOf(line, {"M0", "M1"}, 1)
             c1 == IF programMode = "M0" THEN WorkflowPause(c, "M0")
                   ELSE IF programMode = "M1" THEN WorkflowPause(c, "M1")
                   ELSE c
             c2 == IF "M6" \in Words(line) THEN WorkflowPause(c1, "M6") ELSE c1
         IN [c |-> c2, line |-> line]

\* a data handler that writes a line the filter left empty
OnSenderDataWritesEmpty(c, line) ==
    IF ~c.isOpen THEN c
    ELSE IF c.workflow = WORKFLOW_STATE_IDLE THEN c
    ELSE LET body == IF line # << >> /\ line[1] \in NWords THEN Tail(line) ELSE line
         IN ConnectionWrite(Emit(c, "connection:write"), "sender", c.sender.sent, body)

\* a data handler that numbers the line without removing its own number
OnSenderDataKeepsNumber(c, line) ==
    IF ~c.isOpen THEN c
    ELSE IF c.workflow = WORKFLOW_STATE_IDLE THEN c
    ELSE IF Len(line) = 0 THEN c
    ELSE ConnectionWrite(Emit(c, "connection:write"), "sender", c.sender.sent, line)

\* sender.on('data'), lines 359-384
OnSenderData(c, line) ==
    IF ~c.isOpen THEN c
    ELSE IF c.workflow = WORKFLOW_STATE_IDLE THEN c
    ELSE IF Len(line) = 0 THEN c
    ELSE LET n == c.sender.sent
             body == IF line[1] \in NWords THEN Tail(line) ELSE line
         IN ConnectionWrite(Emit(c, "connection:write"), "sender", n, body)

\* sender.on('start'), lines 387-389
OnSenderStart(c) == [c EXCEPT !.senderFinishTime = 0]

\* an end handler that does not record the finish time
OnSenderEndNoStamp(c) == c

\* sender.on('end'), lines 390-392
OnSenderEnd(c) == [c EXCEPT !.senderFinishTime = c.now]

\* Sender.next(): a no-op when held or when every line has been sent; else
\* the line at index `sent` goes through the filter, is counted and emitted.
\* The first line of a run announces 'start'.
SenderNext(c) ==
    IF c.sender.hold \/ c.sender.sent = c.sender.total THEN c
    ELSE LET c0 == IF c.sender.sent = 0 THEN OnSenderStart(c) ELSE c
             f == SenderDataFilter(c0, c0.sender.lines[c0.sender.sent + 1])
             c1 == [f.c EXCEPT !.sender.sent = @ + 1]
         IN OnSenderData(c1, f.line)

\* Sender.ack(): received += 1; 'end' iff received = total
SenderAck(c) ==
    LET c1 == [c EXCEPT !.sender.received = @ + 1]
    IN IF c1.sender.received = c1.sender.total THEN OnSenderEnd(c1) ELSE c1

\* Sender.load(name, gcode, context): rejects empty text (never the case for
\* the text the controller passes, which always ends with the dwell line)
SenderLoad(c, lines) ==
    [c EXCEPT !.sender = [lines |-> lines, total |-> Len(lines), sent |-> 0,
                          received |-> 0, hold |-> FALSE, holdReason |-> NoReason]]

\* Sender.unload()
SenderUnload(c) ==
    [c EXCEPT !.sender = [lines |-> <<>>, total |-> 0, sent |-> 0,
                          received |-> 0, hold |-> FALSE, holdReason |-> NoReason]]

----------------------------------------------------------------------------
(* Feeder (library) and the controller's feeder handlers *)

FeederHold(c, reason) ==
    IF c.feeder.hold THEN c
    ELSE [c EXCEPT !.feeder.hold = TRUE, !.feeder.holdReason = reason]

FeederUnhold(c) ==
    IF ~c.feeder.hold THEN c
    ELSE [c EXCEPT !.feeder.hold = FALSE, !.feeder.holdReason = NoReason]

FeederReset(c) ==
    [c EXCEPT !.feeder = [queue |-> <<>>, hold |-> FALSE,
                          holdReason |-> NoReason, pending |-> FALSE]]

FeederFeed(c, data) == [c EXCEPT !.feeder.queue = @ \o data]

\* feeder dataFilter, lines 235-279
FeederDataFilter(c, raw) ==
    LET line == StripComment(raw) IN
    IF IsPercent(line)
    THEN IF line = WAIT
         THEN [c |-> FeederHold(c, "%wait"), line |-> Dwell]
         ELSE [c |-> c, line |-> <<>>]
    ELSE LET programMode == FirstOf(line, {"M0", "M1"}, 1)
             c1 == IF programMode = "M0" THEN FeederHold(c, "M0")
                   ELSE IF programMode = "M1" THEN FeederHold(c, "M1")
                   ELSE c
             c2 == IF "M6" \in Words(line) THEN FeederHold(c1, "M6") ELSE c1
         IN [c |-> c2, line |-> line]

\* feeder.on('data'), lines 281-305
OnFeederData(c, line) ==
    IF ~c.isOpen THEN c
    ELSE IF c.runner.stat = "alarm" THEN FeederReset(c)
    ELSE IF Len(line) = 0 THEN c
    ELSE ConnectionWrite(Emit(c, "connection:write"), "feeder", 0, line)

\* Feeder.next(): pulls one line and emits it unless held
FeederNext(c) ==
    IF Len(c.feeder.queue) = 0 THEN [c EXCEPT !.feeder.pending = FALSE]
    ELSE IF c.feeder.hold THEN c
    ELSE LET raw == Head(c.feeder.queue)
             c1 == [c EXCEPT !.feeder.queue = Tail(@)]
             f == FeederDataFilter(c1, raw)
             c2 == [f.c EXCEPT !.feeder.pending = TRUE]
         IN OnFeederData(c2, f.line)

\* a resume handler that releases the hold without sender.next()
OnWorkflowResumeUnholdOnly(c) ==
    SenderUnhold(FeederReset(Emit(c, "workflow:state")))

\* a resume handler that leaves the Feeder as it is
OnWorkflowResumeKeepsFeeder(c) ==
    SenderNext(SenderUnhold(Emit(c, "workflow:state")))

\* a resume handler that rewinds the Sender
OnWorkflowResumeRewinds(c) ==
    SenderNext(SenderRewind(FeederReset(Emit(c, "workflow:state"))))

\* workflow.on('resume'), lines 418-427
OnWorkflowResume(c) ==
    SenderNext(SenderUnhold(FeederReset(Emit(c, "workflow:state"))))

WorkflowResume(c) ==
    IF c.workflow = WORKFLOW_STATE_PAUSED
    THEN OnWorkflowResume([c EXCEPT !.workflow = WORKFLOW_STATE_RUNNING])
    ELSE c

----------------------------------------------------------------------------
(* Runner frame handlers *)

AckNext(c) ==
    [SenderNext(SenderAck(c)) EXCEPT !.senderStatus = SENDER_STATUS_NEXT]

\* an r handler whose running branch acknowledges without sending the next line
OnRAckOnly(c) ==
    IF c.workflow = WORKFLOW_STATE_RUNNING
    THEN LET c1 == [c EXCEPT !.senderStatus = SENDER_STATUS_ACK]
         IN IF ~c1.blocked
            THEN [SenderAck(c1) EXCEPT !.senderStatus = SENDER_STATUS_NEXT]
            ELSE c1
    ELSE IF c.workflow = WORKFLOW_STATE_PAUSED /\ c.sender.received < c.sender.sent
    THEN AckNext([c EXCEPT !.senderStatus = SENDER_STATUS_ACK])
    ELSE FeederNext(c)

\* an r handler whose running branch leaves senderStatus at ack
OnRStatusKept(c) ==
    IF c.workflow = WORKFLOW_STATE_RUNNING
    THEN LET c1 == [c EXCEPT !.senderStatus = SENDER_STATUS_ACK]
         IN IF ~c1.blocked THEN SenderNext(SenderAck(c1)) ELSE c1
    ELSE IF c.workflow = WORKFLOW_STATE_PAUSED /\ c.sender.received < c.sender.sent
    THEN AckNext([c EXCEPT !.senderStatus = SENDER_STATUS_ACK])
    ELSE FeederNext(c)

\* an r handler whose paused branch releases the Sender before sender.next()
OnRPausedSends(c) ==
    IF c.workflow = WORKFLOW_STATE_RUNNING
    THEN LET c1 == [c EXCEPT !.senderStatus = SENDER_STATUS_ACK]
         IN IF ~c1.blocked THEN AckNext(c1) ELSE c1
    ELSE IF c.workflow = WORKFLOW_STATE_PAUSED /\ c.sender.received < c.sender.sent
    THEN [SenderNext(SenderUnhold(SenderAck(c))) EXCEPT
             !.senderStatus = SENDER_STATUS_NEXT]
    ELSE FeederNext(c)

\* an r handler whose running branch acknowledges only a line in flight and
\* hands every other r frame to the Feeder
OnRInFlightOnly(c) ==
    IF c.workflow = WORKFLOW_STATE_RUNNING /\ c.sender.received < c.sender.sent
    THEN LET c1 == [c EXCEPT !.senderStatus = SENDER_STATUS_ACK]
         IN IF ~c1.blocked THEN AckNext(c1) ELSE c1
    ELSE IF c.workflow = WORKFLOW_STATE_PAUSED /\ c.sender.received < c.sender.sent
    THEN AckNext([c EXCEPT !.senderStatus = SENDER_STATUS_ACK])
    ELSE FeederNext(c)

\* an r handler whose running branch does not look at this.blocked
OnRUngated(c) ==
    IF c.workflow = WORKFLOW_STATE_RUNNING
    THEN AckNext([c EXCEPT !.senderStatus = SENDER_STATUS_ACK])
    ELSE IF c.workflow = WORKFLOW_STATE_PAUSED /\ c.sender.received < c.sender.sent
    THEN AckNext([c EXCEPT !.senderStatus = SENDER_STATUS_ACK])
    ELSE FeederNext(c)

\* an r handler that leaves the mask alone
OnRMaskKept(c, key) == c

\* an r handler that rebuilds the mask from the frame at hand: the bit of the
\* null field is cleared and every other bit is set again
OnRMaskRebuilt(c, key) ==
    IF key \in ProbeKeys
    THEN [c EXCEPT !.sr = [k \in DOMAIN c.sr |-> k # key]]
    ELSE c

\* runner.on('r'), lines 443-460: a null field clears the mask bit; `key` is
\* the field of the r frame that is null, NoReason when there is none
OnRMask(c, key) ==
    IF key \in ProbeKeys THEN [c EXCEPT !.sr[key] = FALSE] ELSE c

\* runner.on('r'), lines 439-506 (flow-control part, lines 462-505)
OnR(c) ==
    IF c.workflow = WORKFLOW_STATE_RUNNING
    THEN LET c1 == [c EXCEPT !.senderStatus = SENDER_STATUS_ACK]
         IN IF ~c1.blocked THEN AckNext(c1) ELSE c1
    ELSE IF c.workflow = WORKFLOW_STATE_PAUSED /\ c.sender.received < c.sender.sent
    THEN AckNext([c EXCEPT !.senderStatus = SENDER_STATUS_ACK])
    ELSE FeederNext(c)

\* a qr handler that returns while the planner is still blocked, so that a
\* deferred acknowledgement waits for the high-water mark
OnQrHighOnly(c, qr) ==
    LET c0 == [c EXCEPT !.stateQr = qr] IN
    IF qr <= LOW_WATER THEN [c0 EXCEPT !.blocked = TRUE]
    ELSE IF qr < HIGH_WATER /\ c0.blocked THEN c0
    ELSE
    LET c1 == [c0 EXCEPT !.blocked = FALSE] IN
    IF c1.workflow = WORKFLOW_STATE_RUNNING
    THEN IF c1.senderStatus = SENDER_STATUS_NEXT
         THEN IF /\ c1.sender.hold
                 /\ c1.sender.received >= c1.sender.sent
                 /\ qr >= plannerBufferPoolSize
              THEN [SenderNext(SenderUnhold(c1)) EXCEPT !.senderStatus = SENDER_STATUS_NEXT]
              ELSE c1
         ELSE IF c1.senderStatus = SENDER_STATUS_ACK
         THEN AckNext(c1)
         ELSE c1
    ELSE IF c1.workflow = WORKFLOW_STATE_PAUSED /\ c1.senderStatus = SENDER_STATUS_ACK
    THEN AckNext(c1)
    ELSE FeederNext(c1)

\* a qr handler that does not return at the low-water mark
OnQrLowFallsThrough(c, qr) ==
    LET c0 == [c EXCEPT !.stateQr = qr] IN
    LET c1 == IF qr <= LOW_WATER THEN [c0 EXCEPT !.blocked = TRUE]
              ELSE IF qr >= HIGH_WATER THEN [c0 EXCEPT !.blocked = FALSE]
              ELSE c0 IN
    IF c1.workflow = WORKFLOW_STATE_RUNNING
    THEN IF c1.senderStatus = SENDER_STATUS_NEXT
         THEN IF /\ c1.sender.hold
                 /\ c1.sender.received >= c1.sender.sent
                 /\ qr >= plannerBufferPoolSize
              THEN [SenderNext(SenderUnhold(c1)) EXCEPT !.senderStatus = SENDER_STATUS_NEXT]
              ELSE c1
         ELSE IF c1.senderStatus = SENDER_STATUS_ACK
         THEN AckNext(c1)
         ELSE c1
    ELSE IF c1.workflow = WORKFLOW_STATE_PAUSED /\ c1.senderStatus = SENDER_STATUS_ACK
    THEN AckNext(c1)
    ELSE LET c2 == IF /\ c1.feeder.hold
                      /\ c1.feeder.holdReason = "%wait"
                      /\ qr >= plannerBufferPoolSize
                   THEN FeederUnhold(c1)
                   ELSE c1
         IN FeederNext(c2)

\* a qr handler whose feeder branch releases the Feeder whatever holds it
OnQrReleasesAnyHold(c, qr) ==
    LET c0 == [c EXCEPT !.stateQr = qr] IN
    IF qr <= LOW_WATER THEN [c0 EXCEPT !.blocked = TRUE]
    ELSE
    LET c1 == IF qr >= HIGH_WATER THEN [c0 EXCEPT !.blocked = FALSE] ELSE c0 IN
    IF c1.workflow = WORKFLOW_STATE_RUNNING
    THEN IF c1.senderStatus = SENDER_STATUS_NEXT
         THEN IF /\ c1.sender.hold
                 /\ c1.sender.received >= c1.sender.sent
                 /\ qr >= plannerBufferPoolSize
              THEN [SenderNext(SenderUnhold(c1)) EXCEPT !.senderStatus = SENDER_STATUS_NEXT]
              ELSE c1
         ELSE IF c1.senderStatus = SENDER_STATUS_ACK
         THEN AckNext(c1)
         ELSE c1
    ELSE IF c1.workflow = WORKFLOW_STATE_PAUSED /\ c1.senderStatus = SENDER_STATUS_ACK
    THEN AckNext(c1)
    ELSE FeederNext(IF qr >= plannerBufferPoolSize THEN FeederUnhold(c1) ELSE c1)

\* runner.on('qr'), lines 508-569
OnQr(c, qr) ==
    LET c0 == [c EXCEPT !.stateQr = qr] IN
    IF qr <= LOW_WATER THEN [c0 EXCEPT !.blocked = TRUE]
    ELSE
    LET c1 == IF qr >= HIGH_WATER THEN [c0 EXCEPT !.blocked = FALSE] ELSE c0 IN
    IF c1.workflow = WORKFLOW_STATE_RUNNING
    THEN IF c1.senderStatus = SENDER_STATUS_NEXT
         THEN IF /\ c1.sender.hold
                 /\ c1.sender.received >= c1.sender.sent
                 /\ qr >= plannerBufferPoolSize
              THEN [SenderNext(SenderUnhold(c1)) EXCEPT !.senderStatus = SENDER_STATUS_NEXT]
              ELSE c1
         ELSE IF c1.senderStatus = SENDER_STATUS_ACK
         THEN AckNext(c1)
         ELSE c1
    ELSE IF c1.workflow = WORKFLOW_STATE_PAUSED /\ c1.senderStatus = SENDER_STATUS_ACK
    THEN AckNext(c1)
    ELSE LET c2 == IF /\ c1.feeder.hold
                      /\ c1.feeder.holdReason = "%wait"
                      /\ qr >= plannerBufferPoolSize
                   THEN FeederUnhold(c1)
                   ELSE c1
         IN FeederNext(c2)

ReadLine == "connection:read > line"
ReadErr == "connection:read err"

\* an f handler that pauses on every error, whatever ignoreErrors says
OnFAlwaysPause(c, statusCode, ignoreErrors) ==
    IF statusCode # 0 /\ c.workflow = WORKFLOW_STATE_RUNNING
    THEN WorkflowPause(Emit(Emit(c, ReadLine), ReadErr), "err")
    ELSE LET c1 == IF statusCode # 0 THEN Emit(c, ReadErr) ELSE c
         IN IF c1.workflow = WORKFLOW_STATE_IDLE THEN FeederNext(c1) ELSE c1

\* an f handler that advances the Feeder only after a zero status code
OnFZeroOnly(c, statusCode, ignoreErrors) ==
    IF statusCode # 0 /\ c.workflow = WORKFLOW_STATE_RUNNING
    THEN LET c1 == Emit(Emit(c, ReadLine), ReadErr)
         IN IF ~ignoreErrors THEN WorkflowPause(c1, "err") ELSE c1
    ELSE IF statusCode # 0 THEN Emit(c, ReadErr)
    ELSE IF c.workflow = WORKFLOW_STATE_IDLE THEN FeederNext(c) ELSE c

\* runner.on('f'), lines 580-629
OnF(c, statusCode, ignoreErrors) ==
    IF statusCode # 0 /\ c.workflow = WORKFLOW_STATE_RUNNING
    THEN LET pauseError == ~ignoreErrors
             c1 == Emit(Emit(c, ReadLine), ReadErr)
         IN IF pauseError THEN WorkflowPause(c1, "err") ELSE c1
    ELSE LET c1 == IF statusCode # 0 THEN Emit(c, ReadErr) ELSE c
         IN IF c1.workflow = WORKFLOW_STATE_IDLE THEN FeederNext(c1) ELSE c1

----------------------------------------------------------------------------
(* Client commands, command(cmd, ...args), lines 1051-1363 *)

Feedhold == <<"!">>
CycleStart == <<"~">>
QueueFlush == <<"%">>
KillJob == <<"^d">>
ResetBoard == <<"^x">>
QueueReport == <<"{\"qr\":\"\"}">>
FirmwareBuilds == { 99, 100, 101 }

\* Sender.load returns false for an empty text
SenderAccepts(text) == Len(text) > 0

\* a sender:load that does not stop the workflow
CmdSenderLoadNoStop(c, content) ==
    LET c1 == SenderLoad(c, content \o <<DwellLine>>)
    IN Emit(Emit(Emit(c1, "sender:load"), "sender:load trigger"), "callback:ok")

\* 'sender:load', lines 1053-1083: the text handed to Sender.load is the
\* content followed by the dwell line, so it is never empty
CmdSenderLoad(c, content) ==
    LET text == content \o <<DwellLine>> IN
    IF ~SenderAccepts(text) THEN Emit(c, "callback:error")
    ELSE LET c1 == SenderLoad(c, text)
             c2 == Emit(Emit(c1, "sender:load"), "sender:load trigger")
         IN Emit(WorkflowStop(c2), "callback:ok")

\* 'sender:unload', lines 1084-1092
CmdSenderUnload(c) == SenderUnload(WorkflowStop(c))

\* 'sender:start', lines 1093-1103
CmdSenderStart(c) == SenderNext(FeederReset(WorkflowStart(c)))

\* a sender:stop that writes before it stops the workflow
CmdSenderStopWritesFirst(c, force, firmwareBuild) ==
    LET c1 == Emit(c, "sender:stop")
        c2 == IF ~force THEN c1
              ELSE IF firmwareBuild >= 101 THEN Write(c1, KillJob)
              ELSE IF firmwareBuild >= 100 THEN Write(Write(c1, KillJob), <<"M30">>)
              ELSE Write(Write(Write(c1, Feedhold), QueueFlush), <<"M30">>)
    IN WorkflowStop(Write(c2, QueueReport))

\* 'sender:stop', lines 1106-1134
CmdSenderStop(c, force, firmwareBuild) ==
    LET c1 == WorkflowStop(Emit(c, "sender:stop"))
        c2 == IF ~force THEN c1
              ELSE IF firmwareBuild >= 101 THEN Write(c1, KillJob)
              ELSE IF firmwareBuild >= 100 THEN Write(Write(c1, KillJob), <<"M30">>)
              ELSE Write(Write(Write(c1, Feedhold), QueueFlush), <<"M30">>)
    IN Write(c2, QueueReport)

\* 'sender:pause', lines 1135-1141
CmdSenderPause(c) == Write(Write(WorkflowPause(c, NoReason), Feedhold), QueueReport)

\* 'sender:resume', lines 1142-1148
CmdSenderResume(c) == Write(WorkflowResume(Write(c, CycleStart)), QueueReport)

\* 'feeder:start', lines 1149-1157
CmdFeederStart(c) ==
    IF c.workflow = WORKFLOW_STATE_RUNNING THEN c
    ELSE FeederNext(FeederUnhold(Write(Write(c, CycleStart), QueueReport)))

\* 'feeder:stop', lines 1158-1160
CmdFeederStop(c) == FeederReset(c)

\* a feedhold that goes through the Feeder
CmdFeedholdQueued(c) ==
    LET c1 == FeederFeed(Emit(c, "feedhold"), << Feedhold, QueueReport >>)
    IN IF ~c1.feeder.pending THEN FeederNext(c1) ELSE c1

\* 'feedhold', lines 1161-1166
CmdFeedhold(c) == Write(Write(Emit(c, "feedhold"), Feedhold), QueueReport)

\* 'cyclestart', lines 1167-1172
CmdCyclestart(c) == Write(Write(Emit(c, "cyclestart"), CycleStart), QueueReport)

\* 'reset', lines 1186-1190
CmdReset(c) == Write(FeederReset(WorkflowStop(c)), ResetBoard)

\* 'gcode', lines 1284-1302
CmdGcode(c, data) ==
    LET c1 == FeederFeed(c, data)
    IN IF ~c1.feeder.pending THEN FeederNext(c1) ELSE c1

----------------------------------------------------------------------------
(* Override commands, lines 1193-1238. An override factor is kept in       *)
(* hundredths: 100 stands for the factor 1, 5 for 0.05.                      *)

\* the decimal text of p / 100, as a template literal prints the number
Decimal(p) ==
    ToString(p \div 100) \o
    ( IF p % 100 = 0 THEN ""
      ELSE IF p % 10 = 0 THEN "." \o ToString((p % 100) \div 10)
      ELSE "." \o ToString((p % 100) \div 10) \o ToString(p % 10) )

OverrideCmd(key, p) == << "{" \o key \o ":" \o Decimal(p) \o "}" >>

\* an override without the lower clamp
OverrideNoFloor(cur, value) ==
    IF value = 0 THEN 100
    ELSE IF cur + value > 200 THEN 200
    ELSE cur + value

\* the new factor, lines 1197-1205 and 1215-1223
Override(cur, value) ==
    IF value = 0 THEN 100
    ELSE IF cur + value > 200 THEN 200
    ELSE IF cur + value < 5 THEN 5
    ELSE cur + value

\* 'override:feed', lines 1193-1208
CmdOverrideFeed(c, value) ==
    CmdGcode(c, << OverrideCmd("mfo", Override(c.settings.mfo, value)) >>)

\* 'override:spindle', lines 1211-1226
CmdOverrideSpindle(c, value) ==
    CmdGcode(c, << OverrideCmd("sso", Override(c.settings.sso, value)) >>)

\* a rapid override that takes every other value for 100
CmdOverrideRapidLenient(c, value) ==
    IF value = 50 THEN CmdGcode(c, << OverrideCmd("mto", 50) >>)
    ELSE IF value = 25 THEN CmdGcode(c, << OverrideCmd("mto", 25) >>)
    ELSE CmdGcode(c, << OverrideCmd("mto", 100) >>)

\* 'override:rapid', lines 1228-1238
CmdOverrideRapid(c, value) ==
    IF value = 0 \/ value = 100 THEN CmdGcode(c, << OverrideCmd("mto", 100) >>)
    ELSE IF value = 50 THEN CmdGcode(c, << OverrideCmd("mto", 50) >>)
    ELSE IF value = 25 THEN CmdGcode(c, << OverrideCmd("mto", 25) >>)
    ELSE c

----------------------------------------------------------------------------
(* initController(), lines 694-782 *)

\* a send helper without the length check
InitSendAnyLength(c, cmd) ==
    IF ~c.isOpen THEN c ELSE CmdGcode(c, << <<cmd>> >>)

\* the send helper, lines 695-710: cmd is the text of the command
InitSend(c, cmd) ==
    IF ~c.isOpen THEN c
    ELSE IF Len(cmd) >= c.bufferLimit THEN c
    ELSE CmdGcode(c, << <<cmd>> >>)

RECURSIVE PickBy(_, _)
\* _.pickBy(this.sr, value => !!value) printed by relaxedJSON, lines 713-718
\* and 757-762: JSON.stringify gives "key":true pairs joined by commas, the
\* quotes are removed and true becomes t
PickBy(mask, i) ==
    IF i > Len(SrFields) THEN ""
    ELSE LET rest == PickBy(mask, i + 1)
         IN IF ~mask[SrFields[i]] THEN rest
            ELSE SrFields[i] \o ":t" \o (IF rest = "" THEN "" ELSE "," \o rest)

SrSelection(mask) == "{sr:{" \o PickBy(mask, 1) \o "}}"

ProbeCmd(key) == "{" \o key \o ":n}"

InitHead == << "{ej:1}", "{jv:4}", "{qv:1}", "{sv:1}", "{si:100}" >>
InitTail == << "{sys:n}", "{mt:n}", "{pwr:n}", "{qr:n}", "{sr:n}" >>
InitLast == Len(Probes) + 2
InitDone == InitLast + 1

\* the commands sent between the k-th delay and the next one
InitSegment(c, k) ==
    IF k = 0 THEN InitHead
    ELSE IF k <= Len(Probes) THEN << ProbeCmd(Probes[k]) >>
    ELSE IF k = Len(Probes) + 1 THEN << SrSelection(c.sr) >> \o InitTail
    ELSE << >>

RECURSIVE SendAll(_, _)
SendAll(c, cmds) ==
    IF cmds = << >> THEN c
    ELSE SendAll(InitSend(c, Head(cmds)), Tail(cmds))

\* an initController that fires the trigger right after the last probe,
\* before the field selection and the requests
InitControllerEarlyReady(c) ==
    LET k == c.initPc IN
    IF k < InitLast
    THEN LET c1 == SendAll(c, InitSegment(c, k))
             c2 == IF k = Len(Probes) /\ ~c.destroyed
                   THEN Emit(c1, "controller:ready") ELSE c1
         IN [c2 EXCEPT !.initPc = k + 1]
    ELSE [c EXCEPT !.initPc = InitDone]

\* initController() from one await to the next, lines 694-782; after
\* destroy() this.event is null and the trigger call throws
InitController(c) ==
    LET k == c.initPc IN
    IF k < InitLast
    THEN [SendAll(c, InitSegment(c, k)) EXCEPT !.initPc = k + 1]
    ELSE [(IF c.destroyed THEN c ELSE Emit(c, "controller:ready"))
             EXCEPT !.initPc = InitDone]

----------------------------------------------------------------------------
(* Query timer, lines 632-690 *)

\* a query timer that does not wait for the machine to come to rest
OnQueryTimerHasty(c) ==
    IF ~c.isOpen THEN c
    ELSE
    LET c1 == [c EXCEPT !.mirror = c.runner.wpos]
    IN IF ~c1.ready THEN c1
       ELSE IF c1.senderFinishTime > 0 /\ c1.now - c1.senderFinishTime > toleranceTime
       THEN CmdSenderStop([c1 EXCEPT !.senderFinishTime = 0], FALSE, 0)
       ELSE c1

OnQueryTimer(c) ==
    IF ~c.isOpen THEN c
    ELSE
    LET zeroOffset == (c.mirror = c.runner.wpos)
        c1 == [c EXCEPT !.mirror = c.runner.wpos]
    IN IF ~c1.ready THEN c1
       ELSE IF c1.senderFinishTime > 0
       THEN LET machineIdle == zeroOffset /\ c1.runner.stat = "idle"
                timespan == c1.now - c1.senderFinishTime
            IN IF ~machineIdle
               THEN [c1 EXCEPT !.senderFinishTime = c1.now]
               ELSE IF timespan > toleranceTime
               THEN CmdSenderStop([c1 EXCEPT !.senderFinishTime = 0], FALSE, 0)
               ELSE c1
       ELSE c1

----------------------------------------------------------------------------
(* Transport events and open(), lines 64-93 and 899-966 *)

\* clearActionValues(), lines 861-863
ClearActionValues(c) == [c EXCEPT !.senderFinishTime = 0]

\* command('unload'): no handler of that name exists, lines 1357-1360
CmdUnknown(c) == c

\* connection.open callback up to the bootloader delay, lines 910-942
OnOpen(c) ==
    LET c0 == Emit(Emit([c EXCEPT !.isOpen = TRUE], "connection:open"),
                   "connection:change")
        c1 == ClearActionValues(WorkflowStop(c0))
        c2 == IF c1.sender.total > 0 THEN CmdUnknown(c1) ELSE c1
    IN [c2 EXCEPT !.openPc = "delay"]

\* connection.open callback when the transport fails to open, lines 910-916
OnOpenError(c) == Emit(c, "connection:error")

\* after the delay, lines 944-945: the flag is set whatever happened meanwhile
OnBootDelay(c) == [c EXCEPT !.ready = TRUE, !.openPc = "done"]

\* the open callback after the delay, lines 944-948, up to the first await of
\* initController()
OnBooted(c) == InitController(OnBootDelay(c))

\* destroy(), lines 865-897
Destroy(c) == Emit([c EXCEPT !.destroyed = TRUE], "destroy")

\* close(callback), lines 952-966, with the callback of lines 75-83 run when
\* the transport has closed
Close(c) ==
    LET c1 == Emit(Emit([c EXCEPT !.ready = FALSE], "connection:close"),
                   "connection:change")
        c2 == [c1 EXCEPT !.isOpen = FALSE]
    IN Destroy(Emit([c2 EXCEPT !.registered = FALSE], "controllers:delete"))

\* a close listener that skips close() and its callback
OnCloseFlagOnly(c) == [c EXCEPT !.ready = FALSE, !.isOpen = FALSE]

\* connectionEventListener.close, lines 69-85
OnClose(c) == Close([c EXCEPT !.ready = FALSE])

\* connectionEventListener.error, lines 86-92
OnError(c) == [c EXCEPT !.ready = FALSE]

----------------------------------------------------------------------------
(* State machine *)

\* Wall-clock time is observed only through senderFinishTime > 0 and through
\* now - senderFinishTime > toleranceTime; states are kept up to a shift of
\* the time origin, and the difference is not followed past Horizon.
Epoch == QueryInterval
Horizon == toleranceTime + QueryInterval

CommitState(c) ==
    /\ isOpen' = c.isOpen
    /\ destroyed' = c.destroyed
    /\ ready' = c.ready
    /\ openPc' = c.openPc
    /\ workflow' = c.workflow
    /\ blocked' = c.blocked
    /\ senderStatus' = c.senderStatus
    /\ senderFinishTime' = IF c.senderFinishTime = 0 THEN 0 ELSE Epoch
    /\ now' = IF c.senderFinishTime = 0 THEN Epoch
              ELSE Epoch + Min(c.now - c.senderFinishTime, Horizon)
    /\ stateQr' = c.stateQr
    /\ sender' = c.sender
    /\ feeder' = c.feeder
    /\ runner' = c.runner
    /\ mirror' = c.mirror
    /\ written' = c.written
    /\ initPc' = c.initPc
    /\ sr' = c.sr
    /\ settings' = c.settings
    /\ registered' = c.registered
    /\ bufferLimit' = c.bufferLimit

\* The broadcasts and the transport history are observed by the
\* specifications of the handshake and of the commands only.
Commit(c) ==
    CommitState(c) /\ emitted' = <<>> /\ UNCHANGED <<wire, faulted, sentAtR>>

\* history of the watermark crossings: "low" after a qr <= LOW_WATER, "high"
\* after a qr >= HIGH_WATER, "low_reset" when a workflow start or stop
\* transition has happened since the last qr <= LOW_WATER
GateAfterQr(qr) ==
    IF qr <= LOW_WATER THEN "low" ELSE IF qr >= HIGH_WATER THEN "high" ELSE gate

GateAfter(c, started) ==
    IF gate = "low" /\ (started \/ (c.workflow = WORKFLOW_STATE_IDLE
                                    /\ workflow # WORKFLOW_STATE_IDLE))
    THEN "low_reset"
    ELSE gate

\* history of the commands issued back to back: "p" after sender:pause, "pr"
\* after pause; resume, "s" after sender:start, "ss" after start; stop, "sss"
\* after start; stop; start, "-" after anything else
\* A handler runs once: its result is bound before the variables are assigned.
Do(c) ==
    \E d \in {c} : Commit(d) /\ gate' = GateAfter(d, FALSE) /\ hist' = "-"

Alive == ~destroyed

\* the state after construction, the serial buffer limit apart
Constructed ==
    /\ isOpen = FALSE
    /\ destroyed = FALSE
    /\ ready = FALSE
    /\ openPc = "none"
    /\ workflow = WORKFLOW_STATE_IDLE
    /\ blocked = FALSE
    /\ senderStatus = SENDER_STATUS_NONE
    /\ senderFinishTime = 0
    /\ now = Epoch
    /\ stateQr = -1
    /\ sender = [lines |-> <<>>, total |-> 0, sent |-> 0, received |-> 0,
                 hold |-> FALSE, holdReason |-> NoReason]
    /\ feeder = [queue |-> <<>>, hold |-> FALSE, holdReason |-> NoReason,
                 pending |-> FALSE]
    /\ runner = [stat |-> "busy", wpos |-> 0]
    /\ mirror = 0
    /\ written = <<>>
    /\ gate = "none"
    /\ hist = "-"
    /\ initPc = 0
    /\ sr = [k \in SrKeys |-> TRUE]
    /\ settings = [mfo |-> 100, sso |-> 100]
    /\ registered = TRUE
    /\ emitted = <<>>
    /\ wire = <<>>
    /\ faulted = FALSE
    /\ sentAtR = [ever |-> 0, run |-> 0]

Init == Constructed /\ bufferLimit = TINYG_SERIAL_BUFFER_LIMIT

Open == Alive /\ ~isOpen /\ openPc = "none" /\ Do(OnOpen(Ctl))

\* The streaming protocol is followed from the ready flag on; the commands
\* that initController() then sends are followed in SpecBoot.
BootDelay == openPc = "delay" /\ Do(OnBootDelay(Ctl))

ConnClose == Alive /\ isOpen /\ Do(OnClose(Ctl))

SenderLoadCmd == Alive /\ \E content \in Contents : Do(CmdSenderLoad(Ctl, content))

SenderUnloadCmd == Alive /\ Do(CmdSenderUnload(Ctl))

SenderStartCmd ==
    /\ Alive
    /\ \E d \in {CmdSenderStart(Ctl)} : Commit(d)
    /\ gate' = GateAfter(Ctl, workflow # WORKFLOW_STATE_RUNNING)
    /\ hist' = IF hist = "ss" THEN "sss" ELSE "s"

SenderStopCmd ==
    /\ Alive
    /\ \E force \in BOOLEAN, fb \in FirmwareBuilds :
          /\ (~force => fb = 101)
          /\ \E d \in {CmdSenderStop(Ctl, force, fb)} :
                Commit(d) /\ gate' = GateAfter(d, FALSE)
          /\ hist' = IF hist \in {"s", "sss"} THEN "ss" ELSE "-"

SenderPauseCmd ==
    /\ Alive
    /\ \E d \in {CmdSenderPause(Ctl)} : Commit(d) /\ gate' = GateAfter(d, FALSE)
    /\ hist' = "p"

SenderResumeCmd ==
    /\ Alive
    /\ \E d \in {CmdSenderResume(Ctl)} : Commit(d) /\ gate' = GateAfter(d, FALSE)
    /\ hist' = IF hist = "p" THEN "pr" ELSE "-"

ResetCmd == Alive /\ Do(CmdReset(Ctl))

\* Frames reach the handlers only while the transport is open.
FramesArrive == Alive /\ isOpen /\ sender.received < sender.total + MaxOverrun

RFrame == FramesArrive /\ Do(OnR(Ctl))

QrFrameOf(Values) ==
    /\ FramesArrive
    /\ \E qr \in Values :
          /\ \E d \in {OnQr(Ctl, qr)} : Commit(d)
          /\ gate' = GateAfterQr(qr)
          /\ hist' = "-"

QrFrame == QrFrameOf(QrValues)

FFrame ==
    /\ Alive /\ isOpen
    /\ \E statusCode \in {0, 1}, ignoreErrors \in BOOLEAN :
          Do(OnF(Ctl, statusCode, ignoreErrors))

\* An sr frame updates the Runner's state.
SrFrameOf(StatSet, PosSet) ==
    /\ Alive /\ isOpen
    /\ \E stat \in StatSet, wpos \in PosSet :
          Do([Ctl EXCEPT !.runner = [stat |-> stat, wpos |-> wpos]])

SrFrame == SrFrameOf({"idle", "busy"}, {0})

QueryTimer == Alive /\ Do(OnQueryTimer([Ctl EXCEPT !.now = now + QueryInterval]))

\* The flow-control core.  The Feeder never feeds back into the Sender, the
\* workflow or the gate (it is only reset by them), so the commands that
\* load it are left to the specifications about the Feeder.
Next ==
    \/ Open
    \/ BootDelay
    \/ ConnClose
    \/ SenderLoadCmd
    \/ SenderUnloadCmd
    \/ SenderStartCmd
    \/ SenderStopCmd
    \/ SenderPauseCmd
    \/ SenderResumeCmd
    \/ ResetCmd
    \/ RFrame
    \/ QrFrame
    \/ FFrame
    \/ SrFrame
    \/ QueryTimer

Spec == Init /\ [][Next]_vars

----------------------------------------------------------------------------
(* A run against a machine that answers every transmitted line once, keeps  *)
(* reporting its planner queue and comes to rest: no client interference,   *)
(* no error footer, no transport event after the open.                      *)

\* the text the Sender's filter leaves of a program line
OnWire(raw) == SenderDataFilter(Ctl, raw).line

\* the last line counted as sent went out and has not been answered yet
Unanswered ==
    /\ sender.sent > sender.received
    /\ senderStatus # SENDER_STATUS_ACK
    /\ OnWire(sender.lines[sender.sent]) # <<>>

LiveLoad == workflow = WORKFLOW_STATE_IDLE /\ SenderLoadCmd

LiveStart ==
    /\ isOpen /\ ready
    /\ workflow = WORKFLOW_STATE_IDLE /\ sender.total > 0
    /\ SenderStartCmd

LiveR == Unanswered /\ RFrame

LiveQr == QrFrame

\* the planner drains completely whenever nothing more is sent
LiveQrEmpty == QrFrameOf({plannerBufferPoolSize})

LiveSrIdle == SrFrameOf({"idle"}, {0})

\* once at rest after the end of a program, the machine stays at rest
LiveSrBusy ==
    /\ ~(senderFinishTime > 0 /\ runner.stat = "idle")
    /\ SrFrameOf({"busy"}, {0})

NextLive ==
    \/ Open
    \/ BootDelay
    \/ LiveLoad
    \/ LiveStart
    \/ LiveR
    \/ LiveQr
    \/ LiveSrIdle
    \/ LiveSrBusy
    \/ QueryTimer

\* setInterval keeps the query timer running (line 690); the machine
\* answers, reports and comes to rest
SpecLive ==
    /\ Init /\ [][NextLive]_vars
    /\ WF_vars(QueryTimer)
    /\ WF_vars(LiveR) /\ WF_vars(LiveQrEmpty) /\ WF_vars(LiveSrIdle)

----------------------------------------------------------------------------
(* The open handshake and initController() against a firmware that answers *)
(* the command it received last, with transport close and error events at  *)
(* any moment: no program is loaded and no client command is issued.       *)

\* A handler runs once; its broadcasts are observed and its writes are
\* appended to the transport history.
Seen(c, fault) ==
    \E d \in {c} :
        /\ CommitState(d)
        /\ emitted' = d.emitted
        /\ wire' = wire \o [i \in 1..Len(d.written) |-> d.written[i].data]
        /\ faulted' = (faulted \/ fault)
        /\ UNCHANGED sentAtR
        /\ gate' = GateAfter(d, FALSE)
        /\ hist' = "-"

BufferLimits == { ShortLimit, TINYG_SERIAL_BUFFER_LIMIT }

InitBoot == Constructed /\ bufferLimit \in BufferLimits

BootOpen == Alive /\ ~isOpen /\ openPc = "none" /\ Seen(OnOpen(Ctl), FALSE)

BootOpenError ==
    Alive /\ ~isOpen /\ openPc = "none" /\ Seen(OnOpenError(Ctl), FALSE)

\* await delay(1000) returns, line 942
BootDelayed == openPc = "delay" /\ Seen(OnBooted(Ctl), FALSE)

\* a delay inside initController() returns
BootInitStep == initPc \in 1..InitLast /\ Seen(InitController(Ctl), FALSE)

\* the null field of the next r frame: the firmware answers the probe it
\* received last, with a value or with null
NullFields ==
    { NoReason } \cup
    { k \in ProbeKeys : wire # << >> /\ wire[Len(wire)] = << ProbeCmd(k) >> }

BootROf(key) ==
    /\ Alive /\ isOpen
    /\ key \in NullFields
    /\ Seen(OnR(OnRMask(Ctl, key)), FALSE)

BootR == \E key \in ProbeKeys \cup { NoReason } : BootROf(key)

BootClose == Alive /\ isOpen /\ Seen(OnClose(Ctl), TRUE)

BootError == Alive /\ isOpen /\ Seen(OnError(Ctl), TRUE)

NextBoot ==
    \/ BootOpen
    \/ BootOpenError
    \/ BootDelayed
    \/ BootInitStep
    \/ BootR
    \/ BootClose
    \/ BootError

SpecBoot == InitBoot /\ [][NextBoot]_vars

----------------------------------------------------------------------------
(* A program run during which the firmware reports errors in the footer of *)
(* its frames and the client stops the program; the broadcasts of these     *)
(* handlers are observed.                                                   *)

\* A handler runs once and its broadcasts are observed.
Observed(c) ==
    \E d \in {c} :
        /\ CommitState(d)
        /\ emitted' = d.emitted
        /\ gate' = GateAfter(d, FALSE)
        /\ hist' = "-"
        /\ UNCHANGED << wire, faulted, sentAtR >>

\* an f frame with the given status code, under the given value of the
\* configuration key state.controller.exception.ignoreErrors
FooterOf(statusCode, ignoreErrors) ==
    Alive /\ isOpen /\ Observed(OnF(Ctl, statusCode, ignoreErrors))

FooterFrame ==
    \E statusCode \in {0, 1}, ignoreErrors \in BOOLEAN :
        FooterOf(statusCode, ignoreErrors)

\* sender:stop with the given force option while this.settings.fb holds the
\* given firmware build
StopOf(force, firmwareBuild) ==
    Alive /\ Observed(CmdSenderStop(Ctl, force, firmwareBuild))

StopCmd ==
    \E force \in BOOLEAN, firmwareBuild \in FirmwareBuilds :
        StopOf(force, firmwareBuild)

NextRun ==
    \/ Open
    \/ BootDelay
    \/ SenderLoadCmd
    \/ SenderStartCmd
    \/ SenderResumeCmd
    \/ RFrame
    \/ FooterFrame
    \/ StopCmd

SpecRun == Init /\ [][NextRun]_vars

----------------------------------------------------------------------------
(* Override commands of a client on an open controller, against a firmware *)
(* that answers and reports its override factors.                           *)

Deltas == { -10, -1, 0, 1, 10 }
Factors == { 5, 100, 200 }
RapidValues == { 0, 10, 25, 50, 75, 100 }

FeederHasRoom == Len(feeder.queue) < MaxQueue

OverrideFeedOf(value) ==
    Alive /\ FeederHasRoom /\ Observed(CmdOverrideFeed(Ctl, value))

OverrideFeed == \E value \in Deltas : OverrideFeedOf(value)

OverrideSpindleOf(value) ==
    Alive /\ FeederHasRoom /\ Observed(CmdOverrideSpindle(Ctl, value))

OverrideSpindle == \E value \in Deltas : OverrideSpindleOf(value)

OverrideRapidOf(value) ==
    Alive /\ FeederHasRoom /\ Observed(CmdOverrideRapid(Ctl, value))

OverrideRapid == \E value \in RapidValues : OverrideRapidOf(value)

\* an r frame, which also reports the override factors: the Runner stores
\* them in its settings before the r handler runs
SettingsFrame ==
    /\ Alive /\ isOpen
    /\ \E mfo \in Factors, sso \in Factors :
          Observed(OnR([Ctl EXCEPT !.settings = [mfo |-> mfo, sso |-> sso]]))

NextOverride ==
    \/ Open
    \/ BootDelay
    \/ ConnClose
    \/ OverrideFeed
    \/ OverrideSpindle
    \/ OverrideRapid
    \/ SettingsFrame

SpecOverride == Init /\ [][NextOverride]_vars

----------------------------------------------------------------------------
(* Loading a program in every workflow state, the empty program included;  *)
(* the broadcasts and the callback of sender:load are observed.             *)

LoadOf(content) == Alive /\ Observed(CmdSenderLoad(Ctl, content))

LoadCmd == \E content \in Contents \cup { EmptyContent } : LoadOf(content)

NextLoad ==
    \/ Open
    \/ BootDelay
    \/ LoadCmd
    \/ SenderStartCmd
    \/ SenderPauseCmd
    \/ RFrame
    \/ QrFrame

SpecLoad == Init /\ [][NextLoad]_vars

----------------------------------------------------------------------------
(* The r frames of a program that is started, paused, resumed, stopped and  *)
(* started again: what each r frame handled in the running state leaves in  *)
(* sender.sent is remembered.                                               *)

Tracked(c, g, h, s) ==
    \E d \in {c} :
        /\ CommitState(d)
        /\ emitted' = d.emitted
        /\ gate' = g
        /\ hist' = h
        /\ sentAtR' = s
        /\ UNCHANGED << wire, faulted >>

\* command 'sender:start': a workflow start begins a run
OrderStart ==
    /\ Alive
    /\ Tracked(CmdSenderStart(Ctl),
               GateAfter(Ctl, workflow # WORKFLOW_STATE_RUNNING),
               IF hist = "ss" THEN "sss" ELSE "s",
               IF workflow # WORKFLOW_STATE_RUNNING
               THEN [sentAtR EXCEPT !.run = 0] ELSE sentAtR)

\* an r frame
OrderR ==
    /\ FramesArrive
    /\ \E d \in {OnR(Ctl)} :
          Tracked(d, GateAfter(d, FALSE), "-",
                  IF workflow = WORKFLOW_STATE_RUNNING
                  THEN [ever |-> d.sender.sent, run |-> d.sender.sent]
                  ELSE sentAtR)

NextOrder ==
    \/ Open
    \/ BootDelay
    \/ SenderLoadCmd
    \/ OrderStart
    \/ SenderStopCmd
    \/ SenderPauseCmd
    \/ SenderResumeCmd
    \/ OrderR
    \/ QrFrame

SpecOrder == Init /\ [][NextOrder]_vars

----------------------------------------------------------------------------
(* Programs whose lines carry a line number of their own. *)

NumberedLines == { <<"N7", "G1">>, <<"G1">>, <<"N7">> }
NumberedContents == SeqsUpTo(NumberedLines, MaxProgLen)

NumberedLoad ==
    Alive /\ \E content \in NumberedContents : Observed(CmdSenderLoad(Ctl, content))

NextNumber ==
    \/ Open
    \/ BootDelay
    \/ NumberedLoad
    \/ SenderStartCmd
    \/ SenderPauseCmd
    \/ SenderResumeCmd
    \/ RFrame
    \/ QrFrame

SpecNumber == Init /\ [][NextNumber]_vars

----------------------------------------------------------------------------
(* G-code handed to the Feeder while a program is idle, running or paused, *)
(* and the frames that advance the Feeder.                                 *)

FeederLines == { <<"G0">>, <<"%wait">> }

\* command 'gcode' with one line
GcodeOf(line) == Alive /\ FeederHasRoom /\ Observed(CmdGcode(Ctl, << line >>))

GcodeCmd == \E line \in FeederLines : GcodeOf(line)

FeedPrograms == { << <<"G1">> >>, << <<"M0">>, <<"G1">> >>, << <<"M0">>, <<"M0">> >> }

FeedLoad == Alive /\ \E content \in FeedPrograms : Observed(CmdSenderLoad(Ctl, content))

NextFeed ==
    \/ Open
    \/ BootDelay
    \/ GcodeCmd
    \/ FeedLoad
    \/ SenderStartCmd
    \/ SenderPauseCmd
    \/ SenderResumeCmd
    \/ RFrame
    \/ QrFrame
    \/ FooterFrame

SpecFeed == Init /\ [][NextFeed]_vars

----------------------------------------------------------------------------
(* The query timer and the completion of a program: the machine reports    *)
(* its state and its work position, and the client may stop and restart.   *)

TimerPrograms == { << <<"G1">> >>, << <<"%x=1">> >>, << <<"%wait">> >> }

TimerLoad ==
    Alive /\ \E content \in TimerPrograms : Observed(CmdSenderLoad(Ctl, content))

\* a tick of the query timer, 250 ms after the last one
Tick == Alive /\ Observed(OnQueryTimer([Ctl EXCEPT !.now = now + QueryInterval]))

TimerSr == SrFrameOf({"idle", "busy"}, {0, 1})

NextTimer ==
    \/ Open
    \/ BootDelay
    \/ TimerLoad
    \/ SenderStartCmd
    \/ SenderStopCmd
    \/ RFrame
    \/ TimerSr
    \/ Tick

SpecTimer == Init /\ [][NextTimer]_vars

----------------------------------------------------------------------------
(* The Feeder held by a %wait or an M0 line of a gcode command, and what   *)
(* releases it.                                                            *)

HoldLines == { <<"G0">>, <<"%wait">>, <<"M0">> }

HoldGcode ==
    Alive /\ FeederHasRoom /\ \E line \in HoldLines : Do(CmdGcode(Ctl, << line >>))

FeederStartCmd == Alive /\ Do(CmdFeederStart(Ctl))

FeederStopCmd == Alive /\ Do(CmdFeederStop(Ctl))

\* an sr frame that reports the alarm state
SrAlarm == SrFrameOf({"alarm", "idle"}, {0})

\* the program M0: its first line pauses the workflow
HoldLoad == Alive /\ Do(CmdSenderLoad(Ctl, << <<"M0">> >>))

FeedholdCmd == Alive /\ Observed(CmdFeedhold(Ctl))

CyclestartCmd == Alive /\ Observed(CmdCyclestart(Ctl))

NextHold ==
    \/ Open
    \/ FeedholdCmd
    \/ CyclestartCmd
    \/ HoldGcode
    \/ FeederStartCmd
    \/ FeederStopCmd
    \/ ResetCmd
    \/ HoldLoad
    \/ SenderStartCmd
    \/ SenderResumeCmd
    \/ RFrame
    \/ QrFrame
    \/ FFrame
    \/ SrAlarm

SpecHold == Init /\ [][NextHold]_vars

----------------------------------------------------------------------------
(* Properties *)

SenderWrites(w) == SelectSeq(w, LAMBDA e : e.src = "sender")
InFlight == sender.sent - sender.received
Running == workflow = WORKFLOW_STATE_RUNNING

\* C1: after every event 0 <= received <= sent <= total (program loaded,
\* transport open).
CountersOrdered ==
    (isOpen /\ sender.total > 0)
    => /\ 0 <= sender.received
       /\ sender.received <= sender.sent
       /\ sender.sent <= sender.total

\* C2: at most one Sender line is in flight, sent - received <= 1, whatever
\* the interleaving of frames and sender commands (program loaded, transport
\* open).
AtMostOneInFlight == (isOpen /\ sender.total > 0) => InFlight <= 1

\* C3: whenever workflow = running, exactly one Sender line is in flight
\* after each event: sent = received + 1 (program loaded, transport open).
OneInFlightWhileRunning ==
    (isOpen /\ Running /\ sender.total > 0) => sender.sent = sender.received + 1

\* C3, amended: sender:start from a workflow that is not running, with a
\* program loaded, leaves sent = 1 and received = 0; and an r frame handled
\* while running, with blocked = false, the Sender not held and a line left
\* to send, acknowledges one line and sends one, so the number in flight
\* stays what it was.
InFlightKeptByAck ==
    [][ /\ (hist' \in {"s", "sss"} /\ ~Running /\ sender.total > 0)
            => (sender.sent' = 1 /\ sender.received' = 0)
        /\ (RFrame /\ Running /\ ~blocked /\ ~sender.hold
              /\ sender.sent < sender.total)
            => /\ sender.received' = sender.received + 1
               /\ sender.sent' = sender.sent + 1 ]_vars

\* C3 happens: the first line was answered and the second went out.
AckedAndSentNext ==
    /\ Running /\ sender.sent = 2 /\ sender.received = 1
    /\ senderStatus = SENDER_STATUS_NEXT
    /\ Len(SenderWrites(written)) = 1 /\ written[1].n = 2

Deferred == Running /\ senderStatus = SENDER_STATUS_ACK /\ blocked

BlockedIffLowSinceHigh == blocked <=> gate \in {"low", "low_reset"}

\* C6, amended: blocked is true exactly when some qr <= LOW_WATER has been
\* observed and since then neither a qr >= HIGH_WATER nor a workflow start or
\* stop transition.
BlockedIffLowSinceHighOrReset == blocked <=> gate = "low"

\* C6 happens: a start has cleared blocked with no qr >= HIGH_WATER since the
\* last qr <= LOW_WATER.
UnblockedByStart ==
    /\ ~blocked /\ gate = "low_reset" /\ Running
    /\ stateQr <= LOW_WATER /\ sender.sent = 1

HeldForWait == sender.hold /\ sender.holdReason = "%wait"

\* the run goes on over a step: no stop, no load, no rewind
RunGoesOn ==
    /\ workflow' # WORKFLOW_STATE_IDLE
    /\ sender.lines' = sender.lines
    /\ sender.sent' >= sender.sent

\* a step that takes a %wait line of the program, with the transport open,
\* transmits G4 P0.5 in its place and holds the Sender with reason %wait
WaitBecomesDwell ==
    (/\ sender.sent < sender.total
     /\ sender.sent' = sender.sent + 1
     /\ sender.lines' = sender.lines
     /\ isOpen'
     /\ StripComment(sender.lines[sender.sent + 1]) = WAIT)
    => /\ SenderWrites(written')
            = <<[src |-> "sender", n |-> sender.sent', data |-> Dwell]>>
       /\ sender.hold' /\ sender.holdReason' = "%wait"

\* C7: a %wait line is transmitted as G4 P0.5 and holds the Sender with
\* reason %wait; the Sender stays held, for as long as the run goes on, until
\* a qr frame with qr >= plannerBufferPoolSize arrives.
WaitHeldUntilPlannerEmpty ==
    [][ /\ WaitBecomesDwell
        /\ (isOpen /\ HeldForWait /\ ~sender.hold' /\ RunGoesOn)
            => (QrFrame /\ stateQr' >= plannerBufferPoolSize) ]_vars

\* C7, amended: a %wait line is transmitted as G4 P0.5 and holds the Sender
\* with reason %wait; the Sender stays held, for as long as the run goes on,
\* until a qr frame with qr >= plannerBufferPoolSize arrives or the client
\* issues sender:resume.
WaitHeldUntilPlannerEmptyOrResume ==
    [][ /\ WaitBecomesDwell
        /\ (HeldForWait /\ ~sender.hold' /\ RunGoesOn)
            => \/ QrFrame /\ stateQr' >= plannerBufferPoolSize
               \/ SenderResumeCmd ]_vars

\* C7 happens: the dwell went out in place of a %wait line that is not the
\* first of the program, and the Sender is held.
HeldOnWait ==
    /\ Running /\ HeldForWait /\ sender.sent = 2
    /\ written = <<[src |-> "sender", n |-> 2, data |-> Dwell]>>

Finished == sender.received = sender.total /\ senderFinishTime > 0

\* every line of the program is transmitted and none pauses the workflow
Plain ==
    \A i \in 1..Len(sender.lines) :
        /\ OnWire(sender.lines[i]) # <<>>
        /\ Words(sender.lines[i]) \cap {"M0", "M1", "M6"} = {}

FirstLine == StripComment(sender.lines[1])

\* C10: workflow start and workflow stop both set blocked = false and
\* senderStatus = none and rewind the Sender, so that start; stop; start
\* runs the program again from line 0: after a start transition received = 0
\* and line 0 is the one line taken (the Sender is held again only if line 0
\* holds it); after a stop transition sent = received = 0 and the hold is
\* cleared; the last start of start; stop; start transmits line 0, numbered
\* 1, if the transport is open and the filter leaves text of it.
StartStopRewind ==
    [][ /\ (hist' \in {"s", "sss"} /\ ~Running)
            => /\ ~blocked' /\ senderStatus' = SENDER_STATUS_NONE
               /\ sender.received' = 0
               /\ sender.sent' = (IF sender.total > 0 THEN 1 ELSE 0)
               /\ sender.hold' =>
                    /\ sender.total > 0
                    /\ (FirstLine = WAIT \/ Words(FirstLine) \cap {"M0", "M1", "M6"} # {})
        /\ (workflow # WORKFLOW_STATE_IDLE /\ workflow' = WORKFLOW_STATE_IDLE)
            => /\ ~blocked' /\ senderStatus' = SENDER_STATUS_NONE
               /\ sender.received' = 0 /\ sender.sent' = 0 /\ ~sender.hold'
        /\ (hist = "ss" /\ hist' = "sss" /\ sender.total > 0)
            => /\ sender.sent' = 1 /\ sender.received' = 0
               /\ LET w == SenderWrites(written')
                  IN /\ Len(w) = (IF isOpen /\ OnWire(sender.lines[1]) # <<>>
                                  THEN 1 ELSE 0)
                     /\ \A i \in 1..Len(w) :
                           /\ w[i].n = 1
                           /\ w[i].data =
                                (IF FirstLine = WAIT THEN Dwell ELSE FirstLine)
      ]_vars

\* C10 happens: start; stop; start has transmitted line 0 again.
RestartedFromLineZero ==
    /\ hist = "sss" /\ Running /\ isOpen /\ ~blocked
    /\ sender.sent = 1 /\ sender.received = 0
    /\ written = <<[src |-> "sender", n |-> 1, data |-> FirstLine]>>

----------------------------------------------------------------------------
\* C11 as stated: in every state where the workflow is paused or idle, the
\* Sender is held or has nothing left to send (sent = total)
HeldOrDrainedAtRest ==
    workflow \in {WORKFLOW_STATE_PAUSED, WORKFLOW_STATE_IDLE}
        => (sender.hold \/ sender.sent = sender.total)

\* C11: in every state where the workflow is paused the Sender is held, and
\* in every state where the workflow is idle the Sender is rewound (sent =
\* received = 0, hold cleared), so that an idle workflow with a loaded
\* program has lines left to send and no hold
HeldWhilePausedRewoundWhileIdle ==
    /\ workflow = WORKFLOW_STATE_PAUSED => sender.hold
    /\ workflow = WORKFLOW_STATE_IDLE
           => (~sender.hold /\ sender.sent = 0 /\ sender.received = 0)

\* a program was running with a line sent, and the workflow is now paused
PausedInMidProgram ==
    /\ workflow = WORKFLOW_STATE_PAUSED
    /\ sender.hold
    /\ 0 < sender.sent /\ sender.sent < sender.total

----------------------------------------------------------------------------
\* C12: ready is true only after a completed open handshake (transport
\* opened, bootloader delay elapsed) and before any transport close or
\* error event; a close or error during the delay leaves ready false
ReadyOnlyBetweenHandshakeAndFault ==
    ready => (openPc = "done" /\ ~faulted)

----------------------------------------------------------------------------
CloseEffects ==
    << "connection:close", "connection:change", "controllers:delete", "destroy" >>

\* C13: a transport close event sets ready = false, broadcasts
\* connection:close, then removes the controller from the registry and
\* destroys it, in that order, and a destroyed controller stays closed and
\* unregistered; a transport error event sets ready = false and changes
\* nothing else: the controller stays open, registered and alive
CloseIsTerminalErrorIsNot ==
    /\ [](destroyed => (~isOpen /\ ~registered))
    /\ [][ /\ BootClose => /\ ~ready' /\ ~isOpen' /\ ~registered' /\ destroyed'
                           /\ emitted' = CloseEffects
           /\ BootError => /\ ~ready' /\ emitted' = << >> /\ written' = << >>
                           /\ UNCHANGED << isOpen, destroyed, registered, openPc,
                                           initPc, workflow, sender, feeder, sr >>
         ]_vars

\* the transport has closed after a completed handshake
ClosedAfterHandshake ==
    /\ destroyed /\ openPc = "done" /\ ~ready
    /\ emitted = CloseEffects

----------------------------------------------------------------------------
ErrorBroadcast == << ReadLine, ReadErr >>

\* C14: an f frame with a non-zero status code that arrives while the
\* workflow is running broadcasts the error; with ignoreErrors false the
\* workflow becomes paused and the Sender is held, with ignoreErrors true the
\* workflow stays running and the Sender's counters and hold are unchanged
FooterErrorPausesUnlessIgnored ==
    [][ /\ (Running /\ FooterOf(1, FALSE))
              => /\ workflow' = WORKFLOW_STATE_PAUSED
                 /\ emitted' = ErrorBroadcast \o << "workflow:state" >>
                 /\ sender.hold'
                 /\ sender.sent' = sender.sent
                 /\ sender.received' = sender.received
        /\ (Running /\ FooterOf(1, TRUE))
              => /\ emitted' = ErrorBroadcast
                 /\ workflow' = WORKFLOW_STATE_RUNNING
                 /\ sender' = sender
      ]_vars

\* an error footer has paused a run with a line in flight
PausedByFooterError ==
    /\ workflow = WORKFLOW_STATE_PAUSED
    /\ sender.holdReason = "err"
    /\ sender.sent > sender.received
    /\ emitted = ErrorBroadcast \o << "workflow:state" >>

----------------------------------------------------------------------------
\* what sender:stop with force = true writes for a firmware build, in order
ForcedStopWrites(firmwareBuild) ==
    ( IF firmwareBuild >= 101 THEN << KillJob >>
      ELSE IF firmwareBuild >= 100 THEN << KillJob, <<"M30">> >>
      ELSE << Feedhold, QueueFlush, <<"M30">> >> ) \o << QueueReport >>

WrittenData(w) == [i \in 1..Len(w) |-> w[i].data]

\* the broadcasts of a handler up to its first write to the transport
RECURSIVE BeforeFirstWrite(_)
BeforeFirstWrite(e) ==
    IF e = << >> \/ Head(e) = "connection:write" THEN << >>
    ELSE << Head(e) >> \o BeforeFirstWrite(Tail(e))

----------------------------------------------------------------------------
Max(a, b) == IF a >= b THEN a ELSE b

\* the lines a step hands to the Feeder: what it wrote from the Feeder and
\* what it left in the queue, less what was queued before
FeederTook(line) ==
    /\ \A i \in 1..Len(written') : written'[i].src = "feeder"
    /\ WrittenData(written') \o feeder.queue' = feeder.queue \o << line >>

\* C16: override:feed and override:spindle with a delta D emit the factor 1
\* when D = 0 and otherwise (cur * 100 + D) / 100 clamped to [0.05, 2.0],
\* cur being the factor the Runner's settings hold
OverrideIsClampedSum ==
    [][ \A D \in Deltas :
          /\ (isOpen /\ OverrideFeedOf(D))
                => FeederTook(OverrideCmd("mfo",
                       IF D = 0 THEN 100
                       ELSE Max(5, Min(200, settings.mfo + D))))
          /\ (isOpen /\ OverrideSpindleOf(D))
                => FeederTook(OverrideCmd("sso",
                       IF D = 0 THEN 100
                       ELSE Max(5, Min(200, settings.sso + D))))
      ]_vars

\* a feed override below the floor has just been written as 0.05
FeedOverrideAtFloor ==
    /\ settings.mfo = 5
    /\ written # << >>
    /\ written[Len(written)].data = << "{mfo:0.05}" >>

----------------------------------------------------------------------------
\* C17: override:rapid accepts only the values 0, 25, 50 and 100 and emits
\* mto 1, 0.25, 0.5 and 1 for them; for any other value nothing is enqueued
\* or written and the state does not change
RapidOverrideAcceptsFourValues ==
    [][ \A v \in RapidValues :
          OverrideRapidOf(v)
             => IF v \in { 0, 25, 50, 100 }
                THEN isOpen => FeederTook(IF v = 25 THEN << "{mto:0.25}" >>
                                          ELSE IF v = 50 THEN << "{mto:0.5}" >>
                                          ELSE << "{mto:1}" >>)
                ELSE /\ written' = << >> /\ emitted' = << >>
                     /\ UNCHANGED << feeder, sender, workflow, settings, isOpen,
                                     ready, blocked, senderStatus, sr >>
      ]_vars

\* a rapid override of 25 has just been written as 0.25
RapidQuarterWritten ==
    /\ written # << >>
    /\ written[Len(written)].data = << "{mto:0.25}" >>
    /\ feeder.pending

----------------------------------------------------------------------------
\* the mask in which exactly the probed fields of S have been cleared
MaskWithout(S) == [k \in SrKeys |-> k \notin S]

AsLines(cmds) == [i \in 1..Len(cmds) |-> << cmds[i] >>]

\* the initialization sequence on the transport when the field selection is
\* made under the mask, a selection at or above the serial buffer limit apart
InitWire(mask, limit) ==
    AsLines(InitHead)
    \o [i \in 1..Len(Probes) |-> << ProbeCmd(Probes[i]) >>]
    \o ( IF Len(SrSelection(mask)) >= limit THEN << >>
         ELSE << << SrSelection(mask) >> >> )
    \o AsLines(InitTail)

\* the sequences for every set of cleared probe fields, under a limit
InitWires ==
    { << limit, InitWire(MaskWithout(S), limit) >> :
         S \in SUBSET ProbeKeys, limit \in BufferLimits }

IsPrefix(a, b) == Len(a) <= Len(b) /\ a = SubSeq(b, 1, Len(a))

ReadyTriggered == \E i \in 1..Len(emitted) : emitted[i] = "controller:ready"

\* C18: the initialization commands reach the transport in the order
\* {ej:1}, {jv:4}, {qv:1}, {sv:1}, {si:100}, the six probes, the field
\* selection, {sys:n}, {mt:n}, {pwr:n}, {qr:n}, {sr:n}; and when the
\* controller:ready trigger fires every one of them has been issued: it is
\* on the transport or waits in the Feeder behind the ones before it
InitInOrderThenReady ==
    /\ \E w \in InitWires : w[1] = bufferLimit /\ IsPrefix(wire, w[2])
    /\ ReadyTriggered
          => \E w \in InitWires :
                w[1] = bufferLimit /\ wire \o feeder.queue = w[2]

\* the trigger has fired with all seventeen commands on the transport
ReadyAfterWholeSequence ==
    /\ ReadyTriggered
    /\ wire = InitWire(MaskWithout({}), TINYG_SERIAL_BUFFER_LIMIT)
    /\ Len(wire) = Len(InitHead) + Len(Probes) + 1 + Len(InitTail)

----------------------------------------------------------------------------
RECURSIVE Join(_)
Join(keys) ==
    IF keys = << >> THEN ""
    ELSE IF Len(keys) = 1 THEN keys[1] \o ":t"
    ELSE keys[1] \o ":t," \o Join(Tail(keys))

\* the field selection that names exactly the keys whose bit is set in mask
SelectionOf(mask) ==
    "{sr:{" \o Join(SelectSeq(SrFields, LAMBDA k : mask[k])) \o "}}"

InitFixed == AsLines(InitHead) \o AsLines(InitTail)
                \o [i \in 1..Len(Probes) |-> << ProbeCmd(Probes[i]) >>]

\* a line of the initialization that is none of the fixed commands
IsSelection(line) == \A i \in 1..Len(InitFixed) : line # InitFixed[i]

\* C19 as stated: a null answer to a probe clears the mask bit, and the
\* field selection that reaches the transport afterwards names exactly the
\* keys whose mask bit is still set
SelectionSentMatchesMask ==
    \A i \in 1..Len(written) :
        IsSelection(written[i].data) => written[i].data = << SelectionOf(sr) >>

\* C19: an r frame with a null probe field clears that bit of the mask and
\* no other; the field selection names exactly the keys whose bit is set at
\* the moment initController builds it, after the delay that follows the
\* last probe, and it is then handed to the Feeder: a null answer that
\* arrives after that moment clears the bit but the selection already built
\* still names the field
SelectionBuiltFromMask ==
    [][ /\ \A key \in ProbeKeys :
              BootROf(key)
                 => /\ ~sr'[key]
                    /\ \A k \in SrKeys \ { key } : sr'[k] = sr[k]
        /\ ( /\ BootInitStep
             /\ initPc = Len(Probes) + 1
             /\ isOpen
             /\ Len(SelectionOf(sr)) < bufferLimit )
              => WrittenData(written') \o feeder.queue'
                    = feeder.queue \o << << SelectionOf(sr) >> >> \o AsLines(InitTail)
      ]_vars

\* spe was answered with null and a selection without it is on the transport
SelectionWithoutSpe ==
    /\ ~sr["spe"]
    /\ \E i \in 1..Len(wire) :
          wire[i] = << SelectionOf(MaskWithout({ "spe" })) >>

----------------------------------------------------------------------------
\* C20: during initController a command whose length is at or above the
\* serial buffer limit is dropped, neither enqueued in the Feeder nor
\* written, while the commands after it are still issued; no line that long
\* is ever queued or written; and while the transport is closed no init
\* command is enqueued
LongInitCommandDropped ==
    /\ [](/\ \A i \in 1..Len(wire) : Len(wire[i][1]) < bufferLimit
          /\ \A i \in 1..Len(feeder.queue) : Len(feeder.queue[i][1]) < bufferLimit)
    /\ [][ /\ ( /\ BootInitStep
                /\ initPc = Len(Probes) + 1
                /\ isOpen
                /\ Len(SelectionOf(sr)) >= bufferLimit )
                 => /\ WrittenData(written') \o feeder.queue'
                          = feeder.queue \o AsLines(InitTail)
                    /\ initPc' = initPc + 1
           /\ ((BootInitStep \/ BootDelayed) /\ ~isOpen)
                 => /\ feeder' = feeder
                    /\ written' = << >>
                    /\ initPc' = initPc + 1
         ]_vars

\* the whole sequence but the field selection has reached the transport
\* under the short limit
SequenceWithoutSelection ==
    /\ bufferLimit = ShortLimit
    /\ initPc = InitDone
    /\ wire = AsLines(InitHead)
                 \o [i \in 1..Len(Probes) |-> << ProbeCmd(Probes[i]) >>]
                 \o AsLines(InitTail)

----------------------------------------------------------------------------
\* C21: sender:load with empty content is rejected: the callback receives an
\* error, no sender:load event is broadcast, and the Sender state and the
\* workflow state are unchanged
EmptyLoadRejected ==
    [][ LoadOf(EmptyContent)
          => /\ emitted' = << "callback:error" >>
             /\ sender' = sender
             /\ workflow' = workflow
      ]_vars

\* a program is loaded and at rest
LoadedProgramAtRest ==
    /\ sender.total > 0 /\ sender.lines[sender.total] = DwellLine
    /\ sender.sent = 0 /\ sender.received = 0 /\ ~sender.hold
    /\ senderStatus = SENDER_STATUS_NONE
    /\ workflow = WORKFLOW_STATE_IDLE

\* C22: after a successful sender:load from any workflow state the program's
\* last line is the %wait line, sent = received = 0, the Sender is not held,
\* blocked = false, senderStatus = none and the workflow is idle
LoadResetsAll ==
    [][ \A content \in Contents :
          LoadOf(content) => LoadedProgramAtRest' /\ ~blocked' ]_vars

\* C22 (amended): as above, except that blocked is cleared only when the
\* workflow was not idle; a load in the idle state keeps blocked as it was
LoadResetsAllButIdleBlocked ==
    [][ \A content \in Contents :
          LoadOf(content)
            => /\ LoadedProgramAtRest'
               /\ blocked' = (blocked /\ workflow = WORKFLOW_STATE_IDLE) ]_vars

LoadedOverPausedRun ==
    /\ LoadedProgramAtRest /\ ~blocked
    /\ emitted = << "sender:load", "sender:load trigger", "workflow:state",
                    "callback:ok" >>

\* C23: after a successful transport open while a program is loaded, the
\* program is unloaded (total = 0) and the workflow is idle before ready
\* becomes true
OpenUnloadsProgram ==
    [][ Open /\ sender.total > 0
          => /\ sender'.total = 0
             /\ workflow' = WORKFLOW_STATE_IDLE
             /\ ~ready' ]_vars

\* C24: for any two r frames handled in that order while the workflow is
\* running, sent at the second is at least sent at the first
SentNeverLowerAtLaterR ==
    [][ (OrderR /\ Running) => sender.sent' >= sentAtR.ever ]_vars

\* C24 (amended): the same for two r frames of one run, with no workflow
\* start between them; a start (after a stop or out of a pause) rewinds the
\* Sender, and the r frames that follow it see sent begin again at 1
SentNeverLowerWithinRun ==
    [][ (OrderR /\ Running) => sender.sent' >= sentAtR.run ]_vars

\* two r frames of one run have been handled, and the second left sent at 3
LaterRAfterFirst ==
    /\ Running /\ sentAtR.run = 3 /\ sentAtR.ever = 3
    /\ sender.received = 2

\* C25: in every state, senderStatus = ack implies that an acknowledgement
\* is deferred and waits for a gating signal: the workflow is running or
\* paused, blocked = true, and received < sent
AckMeansDeferredInFlight ==
    senderStatus = SENDER_STATUS_ACK
        => /\ workflow \in {WORKFLOW_STATE_RUNNING, WORKFLOW_STATE_PAUSED}
           /\ blocked
           /\ sender.received < sender.sent

\* the text that line 379 puts on the transport for a line number and the
\* rest of the line
NumberedText(n, body) == << "N" \o ToString(n) >> \o body

\* C26: every Sender line written starts with N<k>, k being the value of
\* the sent counter for that line (the index of the line in the program),
\* in place of the line number the program gave it; within one run the line
\* numbers are strictly increasing: each is one above the line number
\* written before it, and the first after a workflow start is 1
SenderLinesNumbered ==
    [][ LET w == SenderWrites(written')
            base == IF SenderStartCmd /\ ~Running THEN 0 ELSE sender.sent
        IN /\ \A i \in 1..Len(w) :
                /\ w[i].n = base + i
                /\ w[i].n <= sender.total'
                /\ LET line == OnWire(sender.lines'[w[i].n])
                   IN /\ NumberedText(w[i].n, w[i].data)[1] = "N" \o ToString(base + i)
                      /\ Tail(NumberedText(w[i].n, w[i].data))
                            = (IF line[1] \in NWords THEN Tail(line) ELSE line)
                      /\ w[i].data = << >> \/ w[i].data[1] \notin NWords
           /\ Len(w) > 0 => sender.sent' = base + Len(w)
      ]_vars

\* the program's second line N7 G1 has been written as N2 G1
RenumberedSecondLine ==
    /\ Running
    /\ sender.sent = 2
    /\ sender.lines[2] = << "N7", "G1" >>
    /\ written = << [src |-> "sender", n |-> 2, data |-> << "G1" >>] >>
    /\ NumberedText(written[1].n, written[1].data) = << "N2", "G1" >>

\* C27: an r frame handled while the workflow is running and blocked is
\* false applies sender.ack() and then sender.next() and leaves
\* senderStatus = next: received grows by one, and sent grows by one when
\* the Sender is not held and sent < total, and stays as it is otherwise
AckThenNextWhenUnblocked ==
    [][ (RFrame /\ Running /\ ~blocked)
          => /\ senderStatus' = SENDER_STATUS_NEXT
             /\ sender.received' = sender.received + 1
             /\ sender.sent' = IF ~sender.hold /\ sender.sent < sender.total
                               THEN sender.sent + 1 ELSE sender.sent
             /\ ~blocked'
      ]_vars

\* the r frame of line 1 has been acknowledged and line 2 written
SecondLineAfterAck ==
    /\ Running /\ ~blocked /\ senderStatus = SENDER_STATUS_NEXT
    /\ sender.sent = 2 /\ sender.received = 1
    /\ Len(SenderWrites(written)) = 1 /\ written[1].n = 2

\* C28: a qr frame with q <= LOW_WATER changes only blocked (to true) and
\* the mirrored state.qr: in every workflow state it leaves senderStatus,
\* the Sender's counters and hold flag, and the Feeder's queue and hold flag
\* unchanged, and writes nothing to the transport
LowWaterOnlyBlocks ==
    [][ (QrFrame /\ stateQr' <= LOW_WATER)
          => /\ blocked'
             /\ written' = << >>
             /\ UNCHANGED << senderStatus, sender, feeder, workflow,
                             senderFinishTime, isOpen, ready, runner, sr,
                             settings >>
      ]_vars

\* a qr at the low-water mark has blocked a run with a line in flight and
\* a line waiting in the Feeder
BlockedAtLowWater ==
    /\ Running /\ blocked /\ stateQr = LOW_WATER
    /\ senderStatus = SENDER_STATUS_NEXT
    /\ sender.sent = 2 /\ sender.received = 1 /\ written = << >>
    /\ feeder.queue # << >> /\ ~feeder.hold

Paused == workflow = WORKFLOW_STATE_PAUSED

\* C29: while the workflow is paused the Sender is held and no r or qr
\* frame causes a Sender line to be written: an r frame with received < sent
\* only increases received by one and sets senderStatus = next, and leaves
\* sent unchanged
PausedFramesWriteNothing ==
    /\ [](Paused => sender.hold)
    /\ [][ /\ (Paused /\ (RFrame \/ QrFrame))
              => /\ SenderWrites(written') = << >>
                 /\ sender.sent' = sender.sent
           /\ (Paused /\ RFrame /\ sender.received < sender.sent)
              => /\ sender.received' = sender.received + 1
                 /\ senderStatus' = SENDER_STATUS_NEXT
                 /\ Paused' /\ sender.hold'
         ]_vars

\* an M0 on line 1 has paused the workflow, and the r frame that answers it
\* has been drained
DrainedWhilePaused ==
    /\ Paused /\ sender.hold /\ sender.holdReason = "M0"
    /\ sender.sent = 1 /\ sender.received = 1
    /\ senderStatus = SENDER_STATUS_NEXT
    /\ written = << >>

\* what the Feeder transmits for a line of its queue
FeederOnWire(raw) == IF StripComment(raw) = WAIT THEN Dwell ELSE StripComment(raw)

\* C30: on an f frame while the workflow is idle the Feeder is advanced by
\* one feeder.next() whether or not the status code is zero, a non-zero code
\* being broadcast first: a Feeder that is not held gives up the head of its
\* queue, which is written; on an f frame while the workflow is running or
\* paused the Feeder is not advanced
FooterAdvancesFeederWhenIdle ==
    [][ \A statusCode \in {0, 1}, ignoreErrors \in BOOLEAN :
          FooterOf(statusCode, ignoreErrors)
            => IF workflow = WORKFLOW_STATE_IDLE
               THEN /\ emitted' =
                          (IF statusCode # 0 THEN << ReadErr >> ELSE << >>)
                          \o (IF written' # << >> THEN << "connection:write" >>
                              ELSE << >>)
                    /\ IF feeder.queue # << >> /\ ~feeder.hold
                       THEN /\ feeder.queue' = Tail(feeder.queue)
                            /\ written' = << [src |-> "feeder", n |-> 0,
                                              data |-> FeederOnWire(Head(feeder.queue))] >>
                            /\ feeder.pending'
                       ELSE /\ feeder.queue' = feeder.queue
                            /\ written' = << >>
                            /\ feeder.pending' = (feeder.pending /\ feeder.queue # << >>)
                    /\ workflow' = workflow /\ sender' = sender
               ELSE /\ feeder' = feeder
                    /\ written' = << >>
      ]_vars

\* an f frame with a non-zero status code has taken a line from the Feeder
\* of an idle controller
FeederAdvancedAfterError ==
    /\ workflow = WORKFLOW_STATE_IDLE
    /\ emitted = << ReadErr, "connection:write" >>
    /\ written = << [src |-> "feeder", n |-> 0, data |-> << "G0" >>] >>
    /\ feeder.pending

StopIssued == \E i \in 1..Len(emitted) : emitted[i] = "sender:stop"

MachineIdle == runner.stat = "idle" /\ mirror = runner.wpos

\* C31: the query timer issues the automatic sender:stop only on a tick
\* where the transport is open, ready is true, senderFinishTime > 0, the
\* machine is idle with unchanged work position, and more than 500 ms have
\* passed since senderFinishTime; on a tick where the machine is not idle it
\* moves senderFinishTime to the current time and issues no stop; after the
\* stop senderFinishTime is 0, so that the next tick issues none
AutoStopOnlyAtRest ==
    [][ Tick =>
          /\ StopIssued' <=>
                /\ isOpen /\ ready /\ senderFinishTime > 0 /\ MachineIdle
                /\ (now + QueryInterval) - senderFinishTime > toleranceTime
          /\ StopIssued' => senderFinishTime' = 0 /\ workflow' = WORKFLOW_STATE_IDLE
          /\ (isOpen /\ ready /\ senderFinishTime > 0 /\ ~MachineIdle)
                => senderFinishTime' = now' /\ workflow' = workflow
          /\ senderFinishTime = 0 => senderFinishTime' = 0
      ]_vars

\* the timer has stopped a finished program
StoppedByTimer ==
    /\ StopIssued /\ emitted[1] = "sender:stop"
    /\ workflow = WORKFLOW_STATE_IDLE /\ senderFinishTime = 0
    /\ sender.total > 0 /\ MachineIdle /\ ready

\* what sender:resume finds and does in the paused state, but for the
\* workflow state and the Sender hold it leaves
ResumeEffects ==
    /\ feeder.queue' = << >> /\ ~feeder.hold'
    /\ sender.sent' = IF sender.sent < sender.total THEN sender.sent + 1
                      ELSE sender.sent
    /\ sender.received' = sender.received
    /\ blocked' = blocked /\ senderStatus' = senderStatus
    /\ isOpen =>
          /\ Len(written') >= 2
          /\ written'[1].data = CycleStart
          /\ written'[Len(written')].data = QueueReport
          /\ Len(SenderWrites(written')) <= 1

\* the words of the line that sender.next() takes, none when no line is left
NextLineWords ==
    IF sender.sent < sender.total
    THEN Words(StripComment(sender.lines[sender.sent + 1])) ELSE {}

\* C32: sender:resume from the paused state makes the workflow running,
\* empties the Feeder queue and clears the Feeder hold, clears the Sender
\* hold and calls sender.next() once, whatever blocked and senderStatus
\* are, and leaves blocked and senderStatus unchanged
ResumeRunsAndUnholds ==
    [][ (Paused /\ SenderResumeCmd)
          => /\ ResumeEffects
             /\ workflow' = WORKFLOW_STATE_RUNNING
             /\ ~sender.hold'
      ]_vars

\* C32 (amended): the same, except that the line sender.next() takes may end
\* the resumed state at once: an M0, M1 or M6 line pauses the workflow again
\* and holds the Sender, and a %wait line holds the Sender in the running
\* state
ResumeRunsUnlessNextLineHolds ==
    [][ (Paused /\ SenderResumeCmd)
          => /\ ResumeEffects
             /\ workflow' = IF NextLineWords \cap {"M0", "M1", "M6"} # {}
                            THEN WORKFLOW_STATE_PAUSED
                            ELSE WORKFLOW_STATE_RUNNING
             /\ sender.hold' = (NextLineWords \cap {"M0", "M1", "M6", "%wait"} # {})
      ]_vars

\* a resume with blocked = true and a deferred acknowledgement has sent the
\* next line, the dwell of a %wait line, which holds the Sender again
ResumedWhileBlocked ==
    /\ Running /\ blocked /\ senderStatus = SENDER_STATUS_ACK
    /\ Len(written) = 3 /\ written[1].data = CycleStart
    /\ written[2] = [src |-> "sender", n |-> 2, data |-> Dwell]
    /\ written[3].data = QueueReport
    /\ feeder.queue = << >> /\ HeldForWait

FeederHeldFor(reasons) == feeder.hold /\ feeder.holdReason \in reasons

FeederReleased == feeder.hold /\ ~feeder.hold'

\* the commands that release or reset the Feeder
FeederCommand ==
    FeederStartCmd \/ FeederStopCmd \/ ResetCmd \/ SenderStartCmd \/ SenderResumeCmd

\* C33: when the workflow is not running, a Feeder hold with reason %wait
\* is released by a qr frame only if q > LOW_WATER and
\* q >= plannerBufferPoolSize, and by no r or f frame; a Feeder hold with
\* reason M0, M1 or M6 is released by no incoming frame: it ends only
\* through feeder:start or a Feeder reset (feeder:stop, reset, sender:start,
\* sender:resume)
FeederHoldReleasedByEmptyPlanner ==
    [][ /\ (~Running /\ FeederHeldFor({"%wait"}) /\ FeederReleased /\ QrFrame)
              => (stateQr' > LOW_WATER /\ stateQr' >= plannerBufferPoolSize)
        /\ (FeederHeldFor({"%wait"}) /\ FeederReleased)
              => (QrFrame \/ FeederCommand)
        /\ (FeederHeldFor({"M0", "M1", "M6"}) /\ FeederReleased)
              => FeederCommand
      ]_vars

\* a qr frame that reports the planner empty has released a Feeder held by
\* %wait and the line behind it has been written
FeederReleasedAfterWait ==
    /\ workflow = WORKFLOW_STATE_IDLE
    /\ stateQr = plannerBufferPoolSize
    /\ ~feeder.hold
    /\ written = << [src |-> "feeder", n |-> 0, data |-> << "G0" >>] >>
    /\ feeder.pending /\ feeder.queue = << >>

\* what a control command puts on the transport and broadcasts
ControlWrites(char) ==
    << [src |-> "client", n |-> 0, data |-> char],
       [src |-> "client", n |-> 0, data |-> QueueReport] >>

\* C34: the feedhold and cyclestart commands write their control character
\* (! or ~) followed by {"qr":""} directly to the open transport at once,
\* whatever blocked, senderStatus, the Sender hold and the Feeder queue
\* are, and they leave the workflow state, senderStatus, blocked, the Sender
\* and the Feeder unchanged
ControlCharsBypassFlowControl ==
    [][ /\ FeedholdCmd
           => /\ written' = (IF isOpen THEN ControlWrites(Feedhold) ELSE << >>)
              /\ emitted' = << "feedhold" >>
                     \o (IF isOpen THEN << "connection:write", "connection:write" >>
                         ELSE << >>)
        /\ CyclestartCmd
           => /\ written' = (IF isOpen THEN ControlWrites(CycleStart) ELSE << >>)
              /\ emitted' = << "cyclestart" >>
                     \o (IF isOpen THEN << "connection:write", "connection:write" >>
                         ELSE << >>)
        /\ (FeedholdCmd \/ CyclestartCmd)
           => UNCHANGED << workflow, senderStatus, blocked, sender, feeder >>
      ]_vars

\* a feedhold has been written while the Sender was held, the planner
\* blocked and a line waiting in the held Feeder
FeedholdWrittenWhileBlocked ==
    /\ written = ControlWrites(Feedhold)
    /\ blocked /\ sender.hold /\ feeder.hold /\ feeder.queue # << >>
    /\ workflow = WORKFLOW_STATE_PAUSED

\* the first line number a step may take: 1 after the rewind of a workflow
\* start, else the one after the last line counted
TakenFrom == IF SenderStartCmd /\ ~Running THEN 1 ELSE sender.sent + 1

FeederWrites(w) == SelectSeq(w, LAMBDA e : e.src = "feeder")

\* C36: while the workflow is running no r, qr or f frame causes a Feeder
\* line to be written or taken from the queue; a Feeder line reaches the
\* transport during a run only through a client gcode command; and every r
\* frame that arrives during a run, the one that answers such a line
\* included, is handled as a Sender acknowledgement: applied at once when
\* blocked is false, deferred with senderStatus = ack when it is true
FeederSilentDuringRun ==
    [][ /\ (Running /\ (RFrame \/ QrFrame \/ FooterFrame))
            => (FeederWrites(written') = << >> /\ feeder' = feeder)
        /\ (Running /\ FeederWrites(written') # << >>) => GcodeCmd
        /\ (Running /\ RFrame)
            => IF blocked
               THEN senderStatus' = SENDER_STATUS_ACK
                    /\ sender.received' = sender.received
               ELSE senderStatus' = SENDER_STATUS_NEXT
                    /\ sender.received' = sender.received + 1
      ]_vars

\* the r frame that answered a Feeder line written during a run has been
\* counted by the Sender: more lines are acknowledged than were sent
FeederAnswerCountedBySender ==
    /\ Running /\ feeder.pending /\ written = << >>
    /\ sender.received > sender.sent
    /\ senderStatus = SENDER_STATUS_NEXT

\* C37: the automatic sender:stop of the query timer never stops a run
\* that has not finished: whenever it fires, received = total holds for the
\* current run; and a senderFinishTime left over from an earlier run is
\* cleared before any line of a restarted run is transmitted
AutoStopOnlyWhenFinished ==
    [][ /\ (Tick /\ StopIssued') => sender.received = sender.total
        /\ (\E i \in 1..Len(written') :
               written'[i].src = "sender" /\ written'[i].n = 1)
              => senderFinishTime' = 0
      ]_vars

----------------------------------------------------------------------------
\* C38: the bits of the status-report mask only go from true to false: no
\* step of the controller, whether a frame, an open, a failed open or a step
\* of initController, sets a cleared bit back to true, during initialization
\* or after it, and no bit other than spe, spd, spc, sps, com, cof is ever
\* cleared
MaskBitsOnlyCleared ==
    [][ \A k \in SrKeys :
           /\ sr'[k] => sr[k]
           /\ k \notin ProbeKeys => sr'[k]
      ]_vars

\* initController has run to its end with two bits cleared by two different
\* r frames, the first of them still cleared
TwoBitsClearedAfterInit ==
    /\ initPc = InitDone
    /\ ~sr[Probes[1]]
    /\ ~sr[Probes[Len(Probes)]]

============================================================================
